---- MODULE Spec2Model ----
(***************************************************************************)
(* Model of gamelib::scene::SceneObjectPropertiesLoader (BMEdit GameLib):  *)
(* the recursive decoder visitImpl that fills a pre-order list of scene   *)
(* object placeholders from one PRP instruction stream.                    *)
(*                                                                         *)
(* The recursion of visitImpl is an explicit stack of frames; every frame  *)
(* holds the locals of one activation (ip, objects, controllers, ...).     *)
(* Span<T> is a pair (off, size) over the underlying sequence.             *)
(***************************************************************************)
EXTENDS Integers, Sequences, FiniteSets, TLC

\* ------------------------------------------------------------------ bounds
MaxObjects == 3      \* placeholders in the scene
MaxSurplus == 2      \* surplus (unexposed) instructions inside a controller
MaxTail    == 1      \* instructions following the root object's definition

\* ------------------------------------------------------- instruction stream
PRPOpCode ==
    {"BeginObject", "BeginNamedObject", "EndObject", "Container",
     "NamedContainer", "String", "Trivial"}

PRPInstruction(op, n, s) == [op |-> op, i32 |-> n, str |-> s]

I_Begin        == PRPInstruction("BeginObject", 0, "")
I_End          == PRPInstruction("EndObject", 0, "")
I_Trivial      == PRPInstruction("Trivial", 7, "")
I_Container(n) == PRPInstruction("Container", n, "")
I_String(s)    == PRPInstruction("String", 0, s)

\* ------------------------------------------------------------- Span<T>
Span(o, n)      == [off |-> o, size |-> n]
SpanNeverEmpty(s) == FALSE
SpanEmpty(s)    == s.size = 0
SpanNext(s)     == Span(s.off + 1, s.size - 1)
SpanSlice(s, o, n) == Span(s.off + o, n)

\* ------------------------------------------------------------- values
NullValue == [type |-> "", instructions |-> <<>>]
EmptyMap  == [x \in {} |-> NullValue]
\* variant: std::map::insert, an entry that exists is kept
MapPutIfAbsent(m, k, v) ==
    [x \in (DOMAIN m) \cup {k} |-> IF x \in DOMAIN m THEN m[x] ELSE v]
MapPut(m, k, v) == [x \in (DOMAIN m) \cup {k} |-> IF x = k THEN v ELSE m[x]]

\* ------------------------------------------------------------- type registry
\* Descriptors known to the registry while a load runs.  nFields is the
\* number of Trivial instructions the descriptor's shape accounts for;
\* mappable = FALSE is a descriptor whose map yields no value although its
\* verify accepts the window.
TypeDescr(n, k, f, u, m) ==
    [name |-> n, kind |-> k, nFields |-> f, unexposed |-> u, mappable |-> m]

NullType == TypeDescr("", "NONE", 0, FALSE, FALSE)

RegisteredTypes ==
    { TypeDescr("ZGEOM",   "COMPLEX", 1, FALSE, TRUE),
      TypeDescr("ZBROKEN", "COMPLEX", 1, FALSE, FALSE),
      TypeDescr("Open",    "COMPLEX", 1, TRUE,  TRUE),
      TypeDescr("Strict",  "COMPLEX", 1, FALSE, TRUE),
      TypeDescr("Prim",    "RAW_DATA", 1, FALSE, TRUE) }

ObjectTypeIds   == {"ZGEOM", "ZBROKEN", "ZUNKNOWN"}
ControllerNames == {"Open", "Strict", "Prim", "NoSuch"}

Lookup(n) ==
    IF \E t \in RegisteredTypes : t.name = n
    THEN CHOOSE t \in RegisteredTypes : t.name = n
    ELSE NullType

findTypeByHash(h)      == Lookup(h)
findTypeByShortName(n) == Lookup(n)

\* ------------------------------------------------------------- scene inputs
\* A scene is described by the pre-order sequence of child counts of its
\* objects (shape), the controllers of one of its objects, and the number of
\* instructions that follow the root definition.  The stream is the
\* encoding of that scene in the format documented at the head of
\* visitImpl; a deviation then damages one place of the input.
RECURSIVE Pending(_, _)
Pending(shape, k) ==
    IF k = 0 THEN 1 ELSE Pending(shape, k - 1) - 1 + shape[k]

ValidShape(shape) ==
    /\ \A k \in 0 .. Len(shape) - 1 : Pending(shape, k) >= 1
    /\ Pending(shape, Len(shape)) = 0

Shapes ==
    { s \in UNION { [1 .. n -> 0 .. MaxObjects - 1] : n \in 1 .. MaxObjects } :
        ValidShape(s) }

RECURSIVE SubtreeSize(_, _)
RECURSIVE KidsSize(_, _, _)
SubtreeSize(shape, j) == 1 + KidsSize(shape, j + 1, shape[j])
KidsSize(shape, j, m) ==
    IF m = 0 THEN 0
    ELSE LET s == SubtreeSize(shape, j) IN s + KidsSize(shape, j + s, m - 1)

RECURSIVE Repeat(_, _)
Repeat(x, n) == IF n <= 0 THEN <<>> ELSE <<x>> \o Repeat(x, n - 1)

Controller(n, k) == [name |-> n, surplus |-> k]

ControllerLists ==
    {<<>>}
    \cup { <<Controller(n, k)>> : n \in ControllerNames, k \in 0 .. MaxSurplus }
    \cup { <<Controller(n, k), Controller(m, 0)>> :
              n \in {"Open", "Strict"}, k \in 0 .. MaxSurplus, m \in {"Open", "Strict"} }

RECURSIVE EncControllers(_)
EncControllers(cs) ==
    IF cs = <<>> THEN <<>>
    ELSE LET c == Head(cs) IN
         <<I_String(c.name), I_Begin>> \o Repeat(I_Trivial, 1 + c.surplus)
            \o <<I_End>> \o EncControllers(Tail(cs))

RECURSIVE EncObject(_, _)
RECURSIVE EncKids(_, _, _)
EncObject(sc, j) ==
    LET cs == IF sc.ctlAt = j THEN sc.ctls ELSE <<>> IN
    <<I_Begin, I_Trivial, I_End, I_Container(Len(cs))>> \o EncControllers(cs)
        \o <<I_Container(sc.shape[j])>> \o EncKids(sc, j + 1, sc.shape[j])
EncKids(sc, j, m) ==
    IF m = 0 THEN <<>>
    ELSE EncObject(sc, j) \o <<I_End>>
            \o EncKids(sc, j + SubtreeSize(sc.shape, j), m - 1)

WellFormedStream(sc) == EncObject(sc, 1) \o Repeat(I_Trivial, sc.tail)

NoDeviation == [kind |-> "none", pos |-> 0, val |-> ""]

\* negative counts written into the operand of a Container: -1 and the
\* least int32_t
CountWords == {"-1", "INT32_MIN"}
WordOf(w) == IF w = "-1" THEN -1 ELSE -2147483647 - 1

Deviations(sc) ==
    LET base == WellFormedStream(sc) IN
    {NoDeviation}
    \cup UNION { { [kind |-> "op", pos |-> p, val |-> o] :
                      o \in PRPOpCode \ {base[p].op} } : p \in 1 .. Len(base) }
    \cup { [kind |-> "cut", pos |-> p, val |-> ""] : p \in 0 .. Len(base) - 1 }
    \cup { [kind |-> "type", pos |-> p, val |-> t] :
              p \in 1 .. Len(sc.shape), t \in ObjectTypeIds \ {"ZGEOM"} }
    \cup { [kind |-> "count", pos |-> p, val |-> w] :
              p \in { q \in 1 .. Len(base) : base[q].op = "Container" },
              w \in CountWords }
    \cup { [kind |-> "objs", pos |-> p, val |-> ""] : p \in 0 .. Len(sc.shape) - 1 }

Scenes ==
    { [shape |-> s, ctlAt |-> a, ctls |-> c, tail |-> t] :
        s \in Shapes, a \in {1}, c \in ControllerLists, t \in 0 .. MaxTail }

StreamOf(sc, dev) ==
    LET base == WellFormedStream(sc) IN
    CASE dev.kind = "op" ->
            [base EXCEPT ![dev.pos] = PRPInstruction(dev.val, @.i32, @.str)]
      [] dev.kind = "cut" -> SubSeq(base, 1, dev.pos)
      [] dev.kind = "count" ->
            [base EXCEPT ![dev.pos] = PRPInstruction(@.op, WordOf(dev.val), @.str)]
      [] OTHER -> base

SceneObject(t) ==
    [typeId |-> t, properties |-> NullValue, controllers |-> EmptyMap, parent |-> 0]

PlaceholdersOf(sc, dev) ==
    [ i \in 1 .. (IF dev.kind = "objs" THEN dev.pos ELSE Len(sc.shape)) |->
        SceneObject(IF dev.kind = "type" /\ dev.pos = i THEN dev.val ELSE "ZGEOM") ]

\* ------------------------------------------------------------- state
VARIABLES
    input,          \* the scene and the deviation the inputs were built from
    instructions,   \* the PRP instruction sequence given to load
    objects,        \* the placeholder scene objects given to load
    stack,          \* activations of visitImpl, innermost last
    objectIdx,      \* InternalContext::objectIdx
    status,         \* "idle", "running", "returned" or "aborted"
    err,            \* exceptions that reached the caller of load
    calls,          \* history: invocations of Type::verify and Type::map
    visited,        \* history: currentObject of every activation, in order
    filled,         \* history: objects whose properties/controllers were assigned
    finished,       \* history: (object, parent argument) of every activation that returned
    retIp,          \* history: cursor offset of the activation that returned last
    ctlLog,         \* history: one entry per decoded controller
    registry,       \* the TypeRegistry: owned types, indices, last registerType call
    geom            \* one GMSGeomEntity

loaderVars == <<input, instructions, objects, stack, objectIdx, status, err,
                calls, visited, filled, finished, retIp, ctlLog>>

vars == <<input, instructions, objects, stack, objectIdx, status, err, calls,
          visited, filled, finished, retIp, ctlLog, registry, geom>>

Top == stack[Len(stack)]

\* what a read outside the instruction sequence would find
Beyond == PRPInstruction("Trivial", 0, "")

\* ip[0] of a non-empty span
At(ip) ==
    IF ip.off + 1 \in DOMAIN instructions THEN instructions[ip.off + 1] ELSE Beyond

\* getOperand().trivial.i32, an int32_t
OperandI32(instr) == instr.i32

\* ------------------------------------------------------------- Type
\* Type::verify(ip): the window starts with the nFields Trivial instructions
\* of the descriptor.  Returns (ok, remaining window).
TypeVerify(t, ip) ==
    LET ok == /\ ip.size >= t.nFields
              /\ \A j \in 1 .. t.nFields : instructions[ip.off + j].op = "Trivial"
    IN [ok |-> ok, rest |-> IF ok THEN SpanSlice(ip, t.nFields, ip.size - t.nFields) ELSE ip]

\* Type::map(ip): returns (optional value, remaining window); the value keeps
\* the instructions it was mapped from.
TypeMap(t, ip) ==
    LET v == TypeVerify(t, ip) IN
    IF v.ok /\ t.mappable
    THEN [has |-> TRUE,
          value |-> [type |-> t.name,
                     instructions |-> SubSeq(instructions, ip.off + 1, ip.off + t.nFields)],
          rest |-> v.rest]
    ELSE [has |-> FALSE, value |-> NullValue, rest |-> ip]

Call(stage, fn, t, ip, ok, rest) ==
    [stage |-> stage, fn |-> fn, type |-> t.name, win |-> ip.off, ok |-> ok,
     rest |-> rest.off]

\* ------------------------------------------------------------- exceptions
SceneObjectVisitorException(idx, msg) ==
    [kind |-> "SceneObjectVisitorException", objectIdx |-> idx, what |-> msg]
SceneObjectTypeNotFoundException(idx, id) ==
    [kind |-> "SceneObjectTypeNotFoundException", objectIdx |-> idx, what |-> id]
\* Span<T>::operator[] on an index outside the span
OutOfRange == [kind |-> "OutOfRange", objectIdx |-> -1, what |-> "Span index"]
\* fmt::format given a replacement field and no argument for it
FormatError == [kind |-> "fmt::format_error", objectIdx |-> -1, what |-> "argument not found"]

\* outcome of one step of an activation: the exception thrown (if any), the
\* activation's locals afterwards, and the verify/map invocations made
Thrown(e, cs)   == [thrown |-> TRUE,  ex |-> e, frame |-> [pc |-> "dead"], calls |-> cs, log |-> <<>>]
Continue(f, cs) == [thrown |-> FALSE, ex |-> OutOfRange, frame |-> f, calls |-> cs, log |-> <<>>]

Frame(par, cur, objs, ip) ==
    [parent |-> par, currentObject |-> cur, objects |-> objs,
     instructions |-> ip, ip |-> ip, pc |-> "stage1",
     properties |-> NullValue, controllers |-> EmptyMap,
     controllersCount |-> 0, controllerIdx |-> 0,
     childrenCount |-> 0, childrenGeomIdx |-> 0]

\* ------------------------------------------------------------- visitImpl
\* variant: the result of verify is not looked at, map runs in any case
ReadPropertiesUnverified(f, objectType, ip) ==
    LET v == TypeVerify(objectType, ip)
        m == TypeMap(objectType, ip)
        cm == <<Call("properties", "verify", objectType, ip, v.ok, v.rest),
                Call("properties", "map", objectType, ip, m.has, m.rest)>>
    IN
    IF ~m.has
    THEN Thrown(SceneObjectVisitorException(objectIdx,
                    "Invalid instructions set (verification failed) [2]"), cm)
    ELSE Continue([f EXCEPT !.properties = m.value, !.ip = m.rest], cm)

\* STAGE 1: PROPERTIES (opening opcode, type lookup, verify, map, EndObject)
ReadProperties(f, objectType, ip) ==
    LET v == TypeVerify(objectType, ip)
        cv == <<Call("properties", "verify", objectType, ip, v.ok, v.rest)>>
    IN
    IF ~v.ok
    THEN Thrown(SceneObjectVisitorException(objectIdx,
                    "Invalid instructions set (verification failed)"), cv)
    ELSE
    LET m == TypeMap(objectType, ip)
        cm == cv \o <<Call("properties", "map", objectType, ip, m.has, m.rest)>>
    IN
    IF ~m.has
    THEN Thrown(SceneObjectVisitorException(objectIdx,
                    "Invalid instructions set (verification failed) [2]"), cm)
    ELSE Continue([f EXCEPT !.properties = m.value, !.ip = m.rest], cm)

Stage1(f) ==
    IF SpanEmpty(f.ip) THEN Thrown(OutOfRange, <<>>)
    ELSE IF At(f.ip).op \notin {"BeginObject", "BeginNamedObject"}
    THEN Thrown(SceneObjectVisitorException(objectIdx,
                    "Invalid object definition (expected BeginObject/BeginNamedObject)"), <<>>)
    ELSE
    LET ip1 == SpanNext(f.ip)
        objectType == findTypeByHash(objects[f.currentObject].typeId)
    IN
    IF objectType = NullType
    THEN Thrown(SceneObjectTypeNotFoundException(objectIdx,
                    objects[f.currentObject].typeId), <<>>)
    ELSE
    LET r == ReadProperties(f, objectType, ip1) IN
    IF r.thrown THEN r
    ELSE IF SpanEmpty(r.frame.ip) THEN Thrown(OutOfRange, r.calls)
    ELSE IF At(r.frame.ip).op # "EndObject"
    THEN Thrown(SceneObjectVisitorException(objectIdx,
                    "Object decl must ends with EndObject"), r.calls)
    ELSE Continue([r.frame EXCEPT !.ip = SpanNext(@), !.pc = "stage2"], r.calls)

\* STAGE 2: CONTROLLERS, the container that carries the controllers count
ControllersGateRejects(op) == op # "Container" /\ op = "NamedContainer"

\* variant: the controllers loop is entered for a count of zero as well
HasControllersFromZero(controllersCount) == controllersCount >= 0

\* variant: the controllers loop is entered for every count but zero
HasControllersNonZero(controllersCount) == controllersCount # 0

\* if (controllersCount > 0)
HasControllers(controllersCount) == controllersCount > 0

Stage2(f) ==
    IF SpanEmpty(f.ip) THEN Thrown(OutOfRange, <<>>)
    ELSE IF ControllersGateRejects(At(f.ip).op)
    THEN Thrown(SceneObjectVisitorException(objectIdx,
                    "Invalid object definition (Expected Container/NamedContainer)"), <<>>)
    ELSE
    LET controllersCount == OperandI32(At(f.ip)) IN
    Continue([f EXCEPT !.controllersCount = controllersCount,
                       !.controllerIdx = 0,
                       !.controllers = EmptyMap,
                       !.ip = SpanNext(@),
                       !.pc = IF HasControllers(controllersCount)
                             THEN "controller" ELSE "assign"],
             <<>>)

\* the number of instructions in front of the nearest EndObject of ip, or
\* ip.size when the window holds no EndObject (the while loop of the
\* unexposed-instructions path)
EndOffset(ip) ==
    CHOOSE k \in 0 .. ip.size :
        /\ k = ip.size \/ instructions[ip.off + k + 1].op = "EndObject"
        /\ \A j \in 0 .. k - 1 : instructions[ip.off + j + 1].op # "EndObject"

\* variant: the scan is not checked for having run out of instructions
ScanNeverRunsOut(ip, endOffset) == FALSE

\* if (end.empty()) after the scan
ScanRanOut(ip, endOffset) == endOffset = ip.size

\* begin.slice(0, ip.size - endOffset).as<std::vector<PRPInstruction>>()
UnexposedInstructions(ip, endOffset) ==
    LET w == SpanSlice(ip, 0, ip.size - endOffset) IN
    SubSeq(instructions, w.off + 1, w.off + w.size)

\* the throw statement for a controller type that is not COMPLEX: its
\* message is built by fmt::format from a format string with one
\* replacement field and no argument, so fmt::format throws first
NotComplexThrow(idx) == FormatError

CtlEntry(f, name, mapped, kept, afterMap, recovered, endOffset, ipAfter) ==
    [obj |-> f.currentObject, name |-> name, mapped |-> mapped, kept |-> kept,
     afterMap |-> afterMap, recovered |-> recovered, endOffset |-> endOffset,
     ipAfter |-> ipAfter]

\* the part of one iteration that follows a successful map: store the value,
\* keep the unexposed instructions, require and consume EndObject
FinishController(f, name, controllerType, m, cs) ==
    LET ip3 == m.rest
        stored == MapPut(f.controllers, name, m.value)
    IN
    IF SpanEmpty(ip3) THEN Thrown(OutOfRange, cs)
    ELSE
    LET recover == At(ip3).op # "EndObject" /\ controllerType.unexposed
        endOffset == IF recover THEN EndOffset(ip3) ELSE 0
    IN
    IF recover /\ ScanRanOut(ip3, endOffset)
    THEN Thrown(SceneObjectVisitorException(objectIdx,
                    "Invalid controller definition: unexposed instructions and without EndObject"), cs)
    ELSE
    LET ctrls == IF recover
                 THEN [stored EXCEPT ![name].instructions =
                            @ \o UnexposedInstructions(ip3, endOffset)]
                 ELSE stored
        ip4 == IF recover THEN SpanSlice(ip3, endOffset, ip3.size - endOffset) ELSE ip3
    IN
    IF SpanEmpty(ip4) THEN Thrown(OutOfRange, cs)
    ELSE IF At(ip4).op # "EndObject"
    THEN Thrown(SceneObjectVisitorException(objectIdx,
                    "Invalid controller definition (Expected EndObject)"), cs)
    ELSE
    [Continue([f EXCEPT !.controllers = ctrls,
                        !.ip = SpanNext(ip4),
                        !.controllerIdx = @ + 1,
                        !.pc = IF f.controllerIdx + 1 < f.controllersCount
                               THEN "controller" ELSE "assign"], cs)
     EXCEPT !.log = <<CtlEntry(f, name, m.value.instructions,
                               ctrls[name].instructions, ip3.off, recover,
                               endOffset, ip4.off + 1)>>]

\* one iteration of the controllers loop
ControllerIteration(f) ==
    IF SpanEmpty(f.ip) THEN Thrown(OutOfRange, <<>>)
    ELSE IF At(f.ip).op # "String"
    THEN Thrown(SceneObjectVisitorException(objectIdx,
                    "Invalid controller definition (Expected String)"), <<>>)
    ELSE
    LET controllerName == At(f.ip).str
        ip1 == SpanNext(f.ip)
    IN
    IF SpanEmpty(ip1) THEN Thrown(OutOfRange, <<>>)
    ELSE IF At(ip1).op \notin {"BeginObject", "BeginNamedObject"}
    THEN Thrown(SceneObjectVisitorException(objectIdx,
                    "Invalid controller definition (Expected BeginObject/BeginNamedObject)"), <<>>)
    ELSE
    LET ip2 == SpanNext(ip1)
        controllerType == findTypeByShortName(controllerName)
    IN
    IF controllerType = NullType
    THEN Thrown(SceneObjectTypeNotFoundException(objectIdx, controllerName), <<>>)
    ELSE IF controllerType.kind # "COMPLEX"
    THEN Thrown(NotComplexThrow(objectIdx), <<>>)
    ELSE
    LET m == TypeMap(controllerType, ip2)
        cs == <<Call("controller", "map", controllerType, ip2, m.has, m.rest)>>
    IN
    IF ~m.has
    THEN Thrown(SceneObjectVisitorException(objectIdx, "Failed to map controller"), cs)
    ELSE FinishController(f, controllerName, controllerType, m, cs)

\* STAGE 3: CHILDREN, the container that carries the children count
Stage3(f) ==
    IF SpanEmpty(f.ip) THEN Thrown(OutOfRange, <<>>)
    ELSE IF At(f.ip).op \notin {"Container", "NamedContainer"}
    THEN Thrown(SceneObjectVisitorException(objectIdx,
                    "Invalid controller definition (Expected Container with children geoms)"), <<>>)
    ELSE Continue([f EXCEPT !.childrenCount = OperandI32(At(f.ip)),
                            !.childrenGeomIdx = 0,
                            !.ip = SpanNext(@),
                            !.pc = "children"], <<>>)

\* after the recursive call: the child's trailing EndObject
AfterChildCheck(f) ==
    IF SpanEmpty(f.ip) THEN Thrown(OutOfRange, <<>>)
    ELSE IF At(f.ip).op # "EndObject"
    THEN Thrown(SceneObjectVisitorException(objectIdx,
                    "Invalid children definition (Expected EndObject)"), <<>>)
    ELSE Continue([f EXCEPT !.ip = SpanNext(@),
                            !.childrenGeomIdx = @ + 1,
                            !.pc = "children"], <<>>)

\* ------------------------------------------------------------- TypeRegistry
MaxCopies == 2       \* constructed Type objects that carry the same name

TypeNames == {"ZGEOM", "ZGROUP", "ZLIGHT"}

\* a constructed Type object; copy tells objects of one name apart
TypeObject(n, c) == [name |-> n, copy |-> c]
NullPtr == TypeObject("", 0)
TypeObjects == { TypeObject(n, c) : n \in TypeNames, c \in 1 .. MaxCopies }

NoIndex == [n \in {} |-> NullPtr]

EmptyRegistry ==
    [m_types |-> <<>>, m_typesByName |-> NoIndex, m_typesByHash |-> NoIndex,
     arg |-> NullPtr, ret |-> NullPtr]

Owned(reg) == { reg.m_types[k] : k \in DOMAIN reg.m_types }

\* variant: the name index is assigned, a later registration replaces the
\* earlier one
registerTypeLastWins(reg, constructedType) ==
    IF constructedType = NullPtr
    THEN [reg EXCEPT !.arg = constructedType, !.ret = NullPtr]
    ELSE [reg EXCEPT !.m_typesByName = [n \in (DOMAIN @) \cup {constructedType.name} |->
                                          IF n = constructedType.name
                                          THEN constructedType ELSE @[n]],
                     !.m_types = Append(@, constructedType),
                     !.arg = constructedType, !.ret = constructedType]

\* TypeRegistry::registerType: the registry after the call, with the
\* argument and the returned pointer
registerType(reg, constructedType) ==
    IF constructedType = NullPtr
    THEN [reg EXCEPT !.arg = constructedType, !.ret = NullPtr]
    ELSE
    LET ptr == constructedType
        res == ptr.name \notin DOMAIN reg.m_typesByName
    IN
    IF ~res
    THEN [reg EXCEPT !.arg = constructedType, !.ret = NullPtr]
    ELSE [reg EXCEPT !.m_typesByName = [n \in (DOMAIN @) \cup {ptr.name} |->
                                          IF n = ptr.name THEN ptr ELSE @[n]],
                     !.m_types = Append(@, constructedType),
                     !.arg = constructedType, !.ret = ptr]

\* ------------------------------------------------------------- GMSGeomEntity
MaxDepthLevel == 3   \* depth levels given to deserialize

\* a uint32_t as its two 16-bit halves
U32(h, l) == [hi |-> h, lo |-> l]

\* static constexpr uint32_t kInvalidParent = 0xFFFFFFEEu
kInvalidParent == U32(65535, 65518)

\* variant: the parent index is value-initialised like the other members
ZeroParentGeomIndex == U32(0, 0)

\* uint32_t m_parentGeomIndex { GMSGeomEntity::kInvalidParent }
InitialParentGeomIndex == kInvalidParent

\* parent indices the owner of the entities may write
ParentIndices ==
    { U32(h, l) : h \in {0, 65535}, l \in {0, 1, 65517, 65518, 65519, 65535} }

NoEntity ==
    [phase |-> "none", m_parentGeomIndex |-> U32(0, 0), m_depthLevel |-> 0,
     m_typeId |-> 0, overwritten |-> FALSE]

\* GMSGeomEntity::isInheritedOfGeom
isInheritedOfGeom(e) == e.m_parentGeomIndex # kInvalidParent

\* ------------------------------------------------------------- actions
Init ==
    /\ registry = EmptyRegistry
    /\ geom = NoEntity
    /\ \E sc \in Scenes : \E dev \in Deviations(sc) :
          /\ input = [scene |-> sc, dev |-> dev]
          /\ instructions = StreamOf(sc, dev)
          /\ objects = PlaceholdersOf(sc, dev)
    /\ stack = <<>>
    /\ objectIdx = 0
    /\ status = "idle"
    /\ err = <<>>
    /\ calls = <<>>
    /\ visited = <<>>
    /\ filled = <<>>
    /\ finished = <<>>
    /\ retIp = 0
    /\ ctlLog = <<>>

\* variant: the caller of the throwing activation catches the exception and
\* carries on with its own loop
UnwindOneActivation(stk) == SubSeq(stk, 1, Len(stk) - 1)

\* visitImpl and load hold no try block: an exception leaves every
\* activation and reaches the caller of load
Unwind(stk) == <<>>

\* the effect of one step of the innermost activation
Apply(r) ==
    /\ calls' = calls \o r.calls
    /\ ctlLog' = ctlLog \o r.log
    /\ IF r.thrown
       THEN /\ stack' = Unwind(stack)
            /\ err' = Append(err, r.ex)
            /\ status' = IF stack' = <<>> THEN "aborted" ELSE status
       ELSE /\ stack' = [stack EXCEPT ![Len(stack)] = r.frame]
            /\ UNCHANGED <<err, status>>

\* variant: load returns early only when both arguments are empty
NothingAtAllToLoad(objs, instrs) == Len(objs) = 0 /\ Len(instrs) = 0

\* if (!objects || !instructions)
NothingToLoad(objs, instrs) == Len(objs) = 0 \/ Len(instrs) = 0

\* SceneObjectPropertiesLoader::load
Load ==
    /\ status = "idle"
    /\ IF NothingToLoad(objects, instructions)
       THEN /\ status' = "returned"
            /\ UNCHANGED <<stack, visited>>
       ELSE /\ status' = "running"
            /\ stack' = <<Frame(0, 1, Span(1, Len(objects) - 1),
                                Span(0, Len(instructions)))>>
            /\ visited' = <<1>>
    /\ objectIdx' = 0
    /\ UNCHANGED <<registry, geom, input, instructions, objects, err, calls, filled, finished,
                   retIp, ctlLog>>

Running(pc) == status = "running" /\ stack # <<>> /\ Top.pc = pc

Properties ==
    /\ Running("stage1")
    /\ Apply(Stage1(Top))
    /\ UNCHANGED <<registry, geom, input, instructions, objects, objectIdx, visited, filled,
                   finished, retIp>>

ControllersBegin ==
    /\ Running("stage2")
    /\ Apply(Stage2(Top))
    /\ UNCHANGED <<registry, geom, input, instructions, objects, objectIdx, visited, filled,
                   finished, retIp>>

\* variant: every decoded controller is written to the object at once
ControllersWrittenThrough(objs, r) ==
    IF r.thrown THEN objs
    ELSE [objs EXCEPT ![r.frame.currentObject].controllers = r.frame.controllers]

\* the loop fills the local std::map controllers, the object is not touched
ObjectsAfterController(objs, r) == objs

ControllerStep ==
    /\ Running("controller")
    /\ Apply(ControllerIteration(Top))
    /\ objects' = ObjectsAfterController(objects, ControllerIteration(Top))
    /\ UNCHANGED <<registry, geom, input, instructions, objectIdx, visited, filled,
                   finished, retIp>>

\* currentObject->getControllers() = controllers; getProperties() = properties
AssignObject ==
    /\ Running("assign")
    /\ objects' = [objects EXCEPT ![Top.currentObject].controllers = Top.controllers,
                                  ![Top.currentObject].properties = Top.properties]
    /\ filled' = Append(filled, Top.currentObject)
    /\ stack' = [stack EXCEPT ![Len(stack)].pc = "stage3"]
    /\ UNCHANGED <<registry, geom, input, instructions, objectIdx, status, err, calls, visited,
                   finished, retIp, ctlLog>>

ChildrenBegin ==
    /\ Running("stage3")
    /\ Apply(Stage3(Top))
    /\ UNCHANGED <<registry, geom, input, instructions, objects, objectIdx, visited, filled,
                   finished, retIp>>

\* the object a loop iteration gives a parent to, and the parent it is given
LinkTarget(f) == f.currentObject
LinkParent(f) == f.parent

\* the cursor the recursive call starts from, and the objects it may take
ChildFrame(f) ==
    Frame(f.currentObject, f.objects.off + 1,
          SpanSlice(f.objects, 1, f.objects.size - 1), f.ip)

\* one iteration of the children loop up to and including the recursive call
ChildCall ==
    /\ Running("children")
    /\ Top.childrenGeomIdx < Top.childrenCount
    /\ objects' = IF Top.parent # 0
                  THEN [objects EXCEPT ![LinkTarget(Top)].parent = LinkParent(Top)]
                  ELSE objects
    /\ objectIdx' = objectIdx + 1
    /\ IF SpanEmpty(Top.objects)
       THEN /\ Apply(Thrown(OutOfRange, <<>>))
            /\ UNCHANGED visited
       ELSE /\ stack' = [stack EXCEPT ![Len(stack)].pc = "afterChild"]
                            \o <<ChildFrame(Top)>>
            /\ visited' = Append(visited, ChildFrame(Top).currentObject)
            /\ UNCHANGED <<err, status, calls, ctlLog>>
    /\ UNCHANGED <<registry, geom, input, instructions, filled, finished, retIp>>

\* the cursor of the caller when the recursive call has returned: ip is a
\* local copy of the Span passed by value, the callee's ip is its own copy
CursorAfterCall(caller, callee) == caller.ip

\* the children loop is over: visitImpl returns
Return ==
    /\ Running("children")
    /\ Top.childrenGeomIdx >= Top.childrenCount
    /\ finished' = Append(finished, [obj |-> Top.currentObject, by |-> Top.parent])
    /\ retIp' = Top.ip.off
    /\ IF Len(stack) = 1
       THEN /\ stack' = <<>>
            /\ status' = "returned"
       ELSE /\ stack' = [SubSeq(stack, 1, Len(stack) - 1) EXCEPT
                            ![Len(stack) - 1].ip =
                                CursorAfterCall(stack[Len(stack) - 1], Top)]
            /\ UNCHANGED status
    /\ UNCHANGED <<registry, geom, input, instructions, objects, objectIdx, err, calls, visited,
                   filled, ctlLog>>

\* the rest of the loop iteration: the child's trailing EndObject
AfterChild ==
    /\ Running("afterChild")
    /\ Apply(AfterChildCheck(Top))
    /\ UNCHANGED <<registry, geom, input, instructions, objects, objectIdx, visited, filled,
                   finished, retIp>>

Next ==
    \/ Load
    \/ Properties
    \/ ControllersBegin
    \/ ControllerStep
    \/ AssignObject
    \/ ChildrenBegin
    \/ ChildCall
    \/ Return
    \/ AfterChild

Spec == Init /\ [][Next]_vars

\* ------------------------------------------------------------- TypeRegistry
\* no load is running while types are registered or entities are built
LoaderIdle ==
    /\ input = [scene |-> [shape |-> <<0>>, ctlAt |-> 1, ctls |-> <<>>, tail |-> 0],
                dev |-> NoDeviation]
    /\ instructions = <<>>
    /\ objects = <<>>
    /\ stack = <<>>
    /\ objectIdx = 0
    /\ status = "idle"
    /\ err = <<>>
    /\ calls = <<>>
    /\ visited = <<>>
    /\ filled = <<>>
    /\ finished = <<>>
    /\ retIp = 0
    /\ ctlLog = <<>>

InitRegistry ==
    /\ LoaderIdle
    /\ registry = EmptyRegistry
    /\ geom = NoEntity

\* a call of registerType with a newly constructed Type object
RegisterType ==
    /\ \E t \in TypeObjects \ Owned(registry) :
          registry' = registerType(registry, t)
    /\ UNCHANGED <<loaderVars, geom>>

\* a call of registerType with an empty unique_ptr
RegisterNull ==
    /\ registry' = registerType(registry, NullPtr)
    /\ UNCHANGED <<loaderVars, geom>>

NextRegistry ==
    \/ RegisterType
    \/ RegisterNull

SpecRegistry == InitRegistry /\ [][NextRegistry]_vars

\* ------------------------------------------------------------- GMSGeomEntity
InitGeom ==
    /\ LoaderIdle
    /\ registry = EmptyRegistry
    /\ geom = NoEntity

\* GMSGeomEntity::GMSGeomEntity(): the default member initialisers
Construct ==
    /\ geom.phase = "none"
    /\ geom' = [phase |-> "constructed",
                m_parentGeomIndex |-> InitialParentGeomIndex,
                m_depthLevel |-> 0, m_typeId |-> 0, overwritten |-> FALSE]
    /\ UNCHANGED <<loaderVars, registry>>

\* GMSGeomEntity::deserialize: the entity's own fields, at a depth level
Deserialize ==
    /\ geom.phase = "constructed"
    /\ \E depthLevel \in 0 .. MaxDepthLevel : \E typeId \in {1, 2} :
          geom' = [geom EXCEPT !.phase = "deserialized",
                               !.m_depthLevel = depthLevel,
                               !.m_typeId = typeId]
    /\ UNCHANGED <<loaderVars, registry>>

\* friend class GMSEntries writes the parent index during tree assembly
AssignParent ==
    /\ geom.phase \in {"constructed", "deserialized"}
    /\ \E p \in ParentIndices :
          geom' = [geom EXCEPT !.m_parentGeomIndex = p, !.overwritten = TRUE]
    /\ UNCHANGED <<loaderVars, registry>>

NextGeom ==
    \/ Construct
    \/ Deserialize
    \/ AssignParent

SpecGeom == InitGeom /\ [][NextGeom]_vars

\* ------------------------------------------------------------- properties
Done == status \in {"returned", "aborted"}

TheScene == input.scene
TheDev   == input.dev

\* every controller of the scene is one this registry can decode: a COMPLEX
\* type, with surplus instructions only where the type tolerates them
DecodableControllers ==
    \A k \in DOMAIN TheScene.ctls :
        \/ TheScene.ctls[k].name = "Open"
        \/ TheScene.ctls[k].name = "Strict" /\ TheScene.ctls[k].surplus = 0

\* the stream is the encoding of the scene and every placeholder has a
\* registered type
PlainInput == TheDev.kind = "none" /\ DecodableControllers

PreOrder(n) == [i \in 1 .. n |-> i]

\* C1: the children are decoded with one shared cursor: when a child's decode
\* has returned, the parent's cursor sits where the child stopped, and a
\* well-formed stream whose objects have children decodes without error.
C1_SharedCursorAcrossChildren ==
    PlainInput =>
        /\ Running("afterChild") => Top.ip.off = retIp
        /\ err = <<>>

\* C2: a load over a matching well-formed stream succeeds and visits and
\* fills every placeholder exactly once, the k-th decoded object being the
\* k-th placeholder.
C2_EveryPlaceholderOnceInPreOrder ==
    (Done /\ PlainInput) =>
        /\ status = "returned"
        /\ visited = PreOrder(Len(objects))
        /\ filled = PreOrder(Len(objects))

\* C3: on the unexposed-instructions path the controller value keeps the
\* mapped instructions followed by exactly the k instructions in front of
\* the EndObject, and the cursor then stands right after that EndObject.
C3_RetainsExactlyTheSurplus ==
    \A k \in DOMAIN ctlLog :
        LET e == ctlLog[k] IN
        e.recovered =>
            /\ e.endOffset >= 1
            /\ e.kept = e.mapped \o SubSeq(instructions, e.afterMap + 1,
                                           e.afterMap + e.endOffset)
            /\ instructions[e.ipAfter].op = "EndObject"
            /\ e.ipAfter = e.afterMap + e.endOffset + 1

\* C4: the instruction after the properties' EndObject is accepted as the
\* controllers container exactly when it is a Container or a NamedContainer;
\* any other opcode aborts the decode with a structural error.
C4_ControllersGate ==
    [][ (ControllersBegin /\ ~SpanEmpty(Top.ip)) =>
          IF At(Top.ip).op \in {"Container", "NamedContainer"}
          THEN err' = err /\ stack' # <<>>
          ELSE /\ status' = "aborted"
               /\ Len(err') = 1
               /\ err'[1].kind = "SceneObjectVisitorException" ]_vars

\* C5: every object decoded as a child of P has P as its parent once its
\* decode has returned, and the root has no parent.
C5_ChildrenLinkedToParent ==
    \A k \in DOMAIN finished :
        objects[finished[k].obj].parent = finished[k].by

\* C6: a placeholder of unregistered type at pre-order index i, behind
\* well-formed objects, ends the load with the type-not-found error that
\* carries i and the missing type id.
C6_MissingTypeReportedAtItsIndex ==
    (Done /\ TheDev.kind = "type" /\ TheDev.val = "ZUNKNOWN" /\ DecodableControllers) =>
        err = <<SceneObjectTypeNotFoundException(TheDev.pos - 1, "ZUNKNOWN")>>

\* the single object "Begin Props End Container(0) Container(0)", opened by
\* BeginObject or BeginNamedObject, whatever follows it in the stream
MinimalObjectInput ==
    /\ TheScene.shape = <<0>>
    /\ TheScene.ctls = <<>>
    /\ \/ TheDev.kind = "none"
       \/ TheDev = [kind |-> "op", pos |-> 1, val |-> "BeginNamedObject"]

PropertiesOfMinimalObject == [type |-> "ZGEOM", instructions |-> <<I_Trivial>>]

\* C7: the minimal well-formed object loads without error: one object is
\* filled with the mapped properties and no controller, no child is decoded
\* and the cursor stops right after the second Container.
C7_MinimalObjectDecodes ==
    MinimalObjectInput =>
        /\ status # "aborted" /\ err = <<>>
        /\ Len(visited) <= 1
        /\ status = "returned" =>
              /\ visited = <<1>> /\ filled = <<1>>
              /\ objects[1].properties = PropertiesOfMinimalObject
              /\ objects[1].controllers = EmptyMap
              /\ objects[1].parent = 0
              /\ objectIdx = 0
              /\ retIp = 5

C7_Witness ==
    /\ MinimalObjectInput /\ TheDev.kind = "op" /\ TheScene.tail = 1
    /\ status = "returned"
    /\ objects[1].properties = PropertiesOfMinimalObject

\* C8: an exception raised at any depth ends the load at once: it is the
\* only one the caller sees, every activation is gone, and from then on no
\* cursor moves and no placeholder, counter or history changes.
C8_ErrorAbortsWholeLoad ==
    [][ /\ Len(err') <= 1
        /\ err' # <<>> => (status' = "aborted" /\ stack' = <<>>)
        /\ err # <<>> => UNCHANGED vars ]_vars

C8_Witness ==
    /\ status = "aborted"
    /\ Len(err) = 1
    /\ err[1].objectIdx = 2
    /\ Len(visited) = 3
    /\ filled = <<1, 2>>

\* C9: in Stage 1 map runs only after verify accepted the same window, the
\* window just after the opening opcode; a rejecting verify or a map without
\* value ends the decode with a structural error; after success the cursor
\* is the window map returned (then the EndObject is consumed).
C9_VerifyBeforeMap ==
    /\ \A k \in DOMAIN calls :
          LET c == calls[k] IN
          c.stage = "properties" =>
            /\ c.fn = "map" =>
                  /\ k > 1
                  /\ calls[k - 1] = [c EXCEPT !.fn = "verify", !.ok = TRUE,
                                              !.rest = calls[k - 1].rest]
            /\ ~c.ok =>
                  /\ k = Len(calls)
                  /\ status = "aborted"
                  /\ err[1].kind = "SceneObjectVisitorException"
    /\ Running("stage2") =>
          LET c == calls[Len(calls)] IN
          /\ c.stage = "properties" /\ c.fn = "map" /\ c.ok
          /\ c.win = Top.instructions.off + 1
          /\ Top.ip.off = c.rest + 1
          /\ instructions[c.rest + 1].op = "EndObject"

C9_Witness ==
    /\ status = "aborted"
    /\ Len(calls) = 3
    /\ calls[2].fn = "map" /\ calls[2].ok
    /\ calls[3].fn = "verify" /\ ~calls[3].ok

\* C10: a controller name that resolves to a type that is not COMPLEX ends
\* the decode with a structural error, one that resolves to no type with the
\* type-not-found error; neither maps the controller nor stores an entry.
ControllerOfKind(n) ==
    /\ TheDev.kind = "none"
    /\ Len(TheScene.ctls) = 1
    /\ TheScene.ctls[1].name = n

C10_ControllerTypeChecked ==
    (Done /\ (ControllerOfKind("Prim") \/ ControllerOfKind("NoSuch"))) =>
        /\ Len(err) = 1
        /\ ControllerOfKind("Prim") => err[1].kind = "SceneObjectVisitorException"
        /\ ControllerOfKind("NoSuch") =>
              err[1] = SceneObjectTypeNotFoundException(0, "NoSuch")
        /\ \A k \in DOMAIN calls : calls[k].stage # "controller"
        /\ \A i \in DOMAIN objects : objects[i].controllers = EmptyMap

\* every cursor of every activation lies inside the sequence it runs over
CursorsInside ==
    /\ retIp <= Len(instructions)
    /\ \A k \in DOMAIN stack :
          LET f == stack[k] IN
          /\ f.ip.size >= 0 /\ f.ip.off + f.ip.size = Len(instructions)
          /\ f.objects.size >= 0 /\ f.objects.off + f.objects.size = Len(objects)
          /\ f.currentObject \in DOMAIN objects

\* the innermost activation is about to read an instruction, or to take a
\* placeholder for a child, and there is none left
AtExhaustedInput ==
    /\ status = "running" /\ stack # <<>>
    /\ \/ /\ Top.pc \in {"stage1", "stage2", "controller", "stage3", "afterChild"}
          /\ Top.ip.size = 0
       \/ /\ Top.pc = "children"
          /\ Top.childrenGeomIdx < Top.childrenCount
          /\ Top.objects.size = 0

\* a stream that stops inside the root's definition is never loaded normally
TruncatedNeverLoads ==
    (status = "returned" /\ TheDev.kind = "cut" /\ TheDev.pos > 0) =>
        TheDev.pos >= Len(WellFormedStream(TheScene)) - TheScene.tail

\* C11: running out of instructions (or of placeholders for a child) where
\* one is expected ends the decode with an exception; no cursor is moved
\* beyond the end of its sequence and nothing is read there.
C11_ExhaustionIsAnError ==
    /\ [](CursorsInside /\ TruncatedNeverLoads)
    /\ [][ AtExhaustedInput =>
              (status' = "aborted" /\ stack' = <<>> /\ err' = <<OutOfRange>>) ]_vars

C11_Witness ==
    /\ TheDev.kind = "cut"
    /\ status = "aborted"
    /\ err = <<OutOfRange>>
    /\ visited = <<1, 2>>
    /\ filled = <<1>>

\* the next controller of activation f is well formed up to and including
\* the instructions its type maps, its type tolerates unexposed
\* instructions, and what is left of the stream is not empty and holds no
\* EndObject
ScanFindsNoEndObject(f) ==
    /\ f.ip.size >= 2
    /\ At(f.ip).op = "String"
    /\ instructions[f.ip.off + 2].op \in {"BeginObject", "BeginNamedObject"}
    /\ LET t == findTypeByShortName(At(f.ip).str)
           after == f.ip.off + 2 + t.nFields
       IN /\ t.kind = "COMPLEX" /\ t.unexposed /\ t.mappable
          /\ after < Len(instructions)
          /\ \A j \in f.ip.off + 3 .. after : instructions[j].op = "Trivial"
          /\ \A j \in after + 1 .. Len(instructions) : instructions[j].op # "EndObject"

UnexposedWithoutEndObject ==
    "Invalid controller definition: unexposed instructions and without EndObject"

\* C12: when the scan for the EndObject behind unexposed instructions runs
\* to the end of the stream, the decode ends with an exception, and nothing
\* is stored on the object nor kept for any controller.
C12_ScanWithoutEndObjectAborts ==
    [][ (Running("controller") /\ ScanFindsNoEndObject(Top)) =>
            /\ status' = "aborted" /\ stack' = <<>>
            /\ err' = <<SceneObjectVisitorException(objectIdx, UnexposedWithoutEndObject)>>
            /\ objects' = objects
            /\ ctlLog' = ctlLog ]_vars

C12_Witness ==
    /\ status = "aborted"
    /\ err = <<SceneObjectVisitorException(0, UnexposedWithoutEndObject)>>
    /\ TheDev.kind = "op"
    /\ Len(calls) = 3 /\ calls[3].stage = "controller" /\ calls[3].ok
    /\ \A i \in DOMAIN objects : objects[i].controllers = EmptyMap

\* the name index and the owned list hold the same objects, one for each name
IndexMatchesOwned(reg) ==
    /\ DOMAIN reg.m_typesByName = { t.name : t \in Owned(reg) }
    /\ \A t \in Owned(reg) : reg.m_typesByName[t.name] = t
    /\ Cardinality(Owned(reg)) = Len(reg.m_types)
    /\ Cardinality(DOMAIN reg.m_typesByName) = Len(reg.m_types)

\* C13: registerType keeps the first registration of a name: a second object
\* of a registered name and an empty pointer return null and change neither
\* the name index nor the owned list, a new name returns the object and adds
\* it to both; the index and the owned list always hold the same objects.
C13_FirstRegistrationWins ==
    /\ [] IndexMatchesOwned(registry)
    /\ [][ LET a == registry'.arg IN
           IF a = NullPtr \/ a.name \in DOMAIN registry.m_typesByName
           THEN /\ registry'.ret = NullPtr
                /\ registry'.m_typesByName = registry.m_typesByName
                /\ registry'.m_types = registry.m_types
           ELSE /\ registry'.ret = a
                /\ registry'.m_types = Append(registry.m_types, a)
                /\ DOMAIN registry'.m_typesByName =
                      (DOMAIN registry.m_typesByName) \cup {a.name}
                /\ registry'.m_typesByName[a.name] = a
                /\ \A n \in DOMAIN registry.m_typesByName :
                      registry'.m_typesByName[n] = registry.m_typesByName[n] ]_registry

C13_Witness ==
    /\ Len(registry.m_types) = 2
    /\ registry.arg # NullPtr
    /\ registry.arg.name \in DOMAIN registry.m_typesByName
    /\ registry.m_typesByName[registry.arg.name] # registry.arg
    /\ registry.ret = NullPtr

Range(q) == { q[k] : k \in DOMAIN q }

\* an object that was not assigned is as load received it
UntouchedUntilAssigned ==
    \A i \in DOMAIN objects :
        i \notin Range(filled) =>
            objects[i] = PlaceholdersOf(TheScene, TheDev)[i]

\* an activation reaches the assignment with all N controllers decoded, and
\* the object then holds the properties and that complete controller set
AssignedComplete ==
    \A k \in DOMAIN stack :
        LET f == stack[k] IN
        /\ f.pc \in {"stage1", "stage2", "controller", "assign"} =>
              f.currentObject \notin Range(filled)
        /\ f.pc \in {"assign", "stage3", "children", "afterChild"} =>
              /\ f.controllersCount > 0 => f.controllerIdx = f.controllersCount
              /\ f.controllersCount <= 0 => f.controllers = EmptyMap
        /\ f.pc \in {"stage3", "children", "afterChild"} =>
              /\ objects[f.currentObject].properties = f.properties
              /\ objects[f.currentObject].controllers = f.controllers

\* C15: an exception in Stage 1 or Stage 2 leaves the object's properties
\* and controllers as they were before the call; both are assigned together,
\* after the last of the N controllers.
C15_NothingAssignedOnFailure ==
    /\ [](UntouchedUntilAssigned /\ AssignedComplete)
    /\ [][ (stack # <<>> /\ Top.pc \in {"stage1", "stage2", "controller"}) =>
              (objects' = objects /\ filled' = filled) ]_vars

C15_Witness ==
    /\ status = "aborted"
    /\ Len(ctlLog) = 1
    /\ Len(calls) = 4
    /\ filled = <<>>
    /\ objects[1].properties = NullValue
    /\ objects[1].controllers = EmptyMap

\* the controllers decoded for object i, in stream order
ControllersOf(i) == SelectSeq(ctlLog, LAMBDA e : e.obj = i)

\* the last entry of q that carries the name n
LastNamed(q, n) ==
    q[CHOOSE k \in DOMAIN q :
          q[k].name = n /\ \A j \in k + 1 .. Len(q) : q[j].name # n]

\* C16: the controllers of an object are keyed by name: the object holds one
\* entry for each distinct name among its N controllers, and the entry is the
\* value of the last controller of that name, without anything kept for an
\* earlier one.
C16_LastControllerOfANameWins ==
    \A i \in Range(filled) :
        LET es == ControllersOf(i)
            names == { es[k].name : k \in DOMAIN es }
        IN
        /\ DOMAIN objects[i].controllers = names
        /\ Cardinality(DOMAIN objects[i].controllers) = Cardinality(names)
        /\ \A n \in names :
              LET e == LastNamed(es, n)
                  v == objects[i].controllers[n]
              IN /\ v.type = n
                 /\ SubSeq(v.instructions, 1, Len(e.mapped)) = e.mapped
                 /\ ~e.recovered => v.instructions = e.mapped
                 /\ e.recovered => v.instructions = e.kept

C16_Witness ==
    /\ filled = <<1>>
    /\ Len(ctlLog) = 2
    /\ ctlLog[1].name = "Open" /\ ctlLog[2].name = "Open"
    /\ ctlLog[1].recovered /\ ~ctlLog[2].recovered
    /\ DOMAIN objects[1].controllers = {"Open"}
    /\ objects[1].controllers["Open"].instructions = <<I_Trivial>>

\* an activation that read a count <= 0 holds no controller, has decoded
\* none, and its cursor stands right behind the instruction with the count
EmptySections ==
    \A k \in DOMAIN stack :
        LET f == stack[k] IN
        /\ (f.pc \in {"assign", "stage3", "children", "afterChild"}
                /\ f.controllersCount <= 0) =>
              /\ f.controllers = EmptyMap
              /\ ControllersOf(f.currentObject) = <<>>
              /\ f.pc = "assign" =>
                    OperandI32(instructions[f.ip.off]) = f.controllersCount
        /\ (f.pc = "children" /\ f.childrenCount <= 0) =>
              /\ f.childrenGeomIdx = 0
              /\ OperandI32(instructions[f.ip.off]) = f.childrenCount

\* C17: a controllers count or a children count that is zero or negative
\* (down to the least int32_t) is an empty section and no error: no
\* controller instruction is consumed and no controller stored, no
\* placeholder is visited and nothing is consumed behind the Container.
C17_NonPositiveCountIsEmpty ==
    /\ [] EmptySections
    /\ [][ /\ (Running("stage2") /\ Top.ip.size > 0 /\ At(Top.ip).op = "Container"
                  /\ OperandI32(At(Top.ip)) <= 0) =>
                (err' = err /\ stack' # <<>> /\ stack'[Len(stack')].pc = "assign")
           /\ (Running("stage3") /\ Top.ip.size > 0
                  /\ At(Top.ip).op \in {"Container", "NamedContainer"}
                  /\ OperandI32(At(Top.ip)) <= 0) =>
                (err' = err /\ stack' # <<>> /\ stack'[Len(stack')].pc = "children")
           /\ (Running("children") /\ Top.childrenCount <= 0) =>
                /\ err' = err /\ visited' = visited /\ objectIdx' = objectIdx
                /\ objects' = objects
                /\ Len(finished') = Len(finished) + 1
                /\ retIp' = Top.ip.off ]_vars

C17_Witness ==
    /\ TheDev = [kind |-> "count", pos |-> 4, val |-> "INT32_MIN"]
    /\ status = "returned"
    /\ filled = <<1>>
    /\ objects[1].controllers = EmptyMap
    /\ retIp = 5

\* one of the two arguments of load is empty
EmptyArgument == Len(objects) = 0 \/ Len(instructions) = 0

\* C18: load with an empty placeholder list or an empty instruction stream
\* returns normally: no error, no type looked up, no activation of
\* visitImpl, and every placeholder object as it was passed in.
C18_EmptyArgumentIsANoOp ==
    EmptyArgument =>
        /\ status \in {"idle", "returned"}
        /\ err = <<>>
        /\ calls = <<>>
        /\ stack = <<>> /\ visited = <<>> /\ filled = <<>> /\ finished = <<>>
        /\ ctlLog = <<>>
        /\ objects = PlaceholdersOf(TheScene, TheDev)

C18_Witness ==
    /\ status = "returned"
    /\ Len(instructions) = 0
    /\ Len(objects) > 0
    /\ calls = <<>>

====
